---- MODULE Spec2Model ----
(***************************************************************************)
(* Model of the OSE Advisory CLI (src/ose-cli/cli/main.py).                *)
(*                                                                         *)
(* ServiceConstraints is a record of its nine attributes.                  *)
(* InteractiveAdvisor is one entry per session of constraints, context     *)
(* and the position of run() between two prompts.  Every questionary       *)
(* prompt is a suspension point: it either returns an answer its validator *)
(* accepts or raises KeyboardInterrupt into run()'s try block.             *)
(*                                                                         *)
(* Confidences are the source's floats in hundredths (0.92 is 92).         *)
(* Free text is a sequence of one-character strings.                       *)
(***************************************************************************)
EXTENDS Integers, Sequences, FiniteSets

VARIABLES
    constraints,     \* session -> ServiceConstraints attributes
    context,         \* session -> set of keys of InteractiveAdvisor.context
    pc,              \* session -> position of the session inside init/run
    choice,          \* session -> local `choice` of the consistency phase
    use_case,        \* session -> local `use_case` of the consistency phase
    recommendation,  \* session -> local `recommendation` of the consistency phase
    log,             \* session -> headers echoed so far, in order
    proceed,         \* session -> the value _confirm_proceed returned, if it has
    blueprint,       \* session -> blueprint returned to run()
    exit_code,       \* session -> process exit status
    interrupted_at,  \* session -> prompt at which KeyboardInterrupt was raised
    saved,           \* session -> snapshots this session dumped, in order
    progress_file,   \* content of ~/.ose/progress.json
    argv,            \* session -> value of init's --service-name option
    heard,           \* session -> the last prompt that returned and its value
    said,            \* session -> advisory blocks echoed by the last step
    offered,         \* session -> guidance and default of the prompt it waits at
    ret              \* outcome of the last direct call on advisor s1

vars == <<constraints, context, pc, choice, use_case, recommendation, log,
          proceed, blueprint, exit_code, interrupted_at, saved,
          progress_file, argv, heard, said, offered, ret>>

Sessions == {"s1", "s2"}

None == "None"

NoFile == [exists |-> FALSE]

NoBlueprint == [generated |-> FALSE]

NoRet == [op |-> "none"]

NotHeard == [prompt |-> None]

NoOffer == [prompt |-> None]

-----------------------------------------------------------------------------
(* ServiceConstraints *)

NewConstraints ==
    [service_name      |-> "",
     service_type      |-> "",
     throughput_tps    |-> 0,
     latency_p99_ms    |-> 0,
     consistency_model |-> "",
     integrations      |-> <<>>,
     data_volume_gb    |-> 0,
     team_size         |-> 0,
     deployment_target |-> "kubernetes"]

ToDict(c) ==
    [service_name      |-> c.service_name,
     service_type      |-> c.service_type,
     throughput_tps    |-> c.throughput_tps,
     latency_p99_ms    |-> c.latency_p99_ms,
     consistency_model |-> c.consistency_model,
     integrations      |-> c.integrations,
     data_volume_gb    |-> c.data_volume_gb,
     team_size         |-> c.team_size,
     deployment_target |-> c.deployment_target]

\* Python's all(): every element of the list is true.
All(list) == \A i \in 1..Len(list) : list[i]

\* Truth value of a Python str: non-empty.
StrTruthy(str) == str # ""

IsCompleteNonZero(c) ==
    All(<<StrTruthy(c.service_name),
          StrTruthy(c.service_type),
          c.throughput_tps # 0,
          c.latency_p99_ms # 0,
          StrTruthy(c.consistency_model)>>)

IsComplete(c) ==
    All(<<StrTruthy(c.service_name),
          StrTruthy(c.service_type),
          c.throughput_tps > 0,
          c.latency_p99_ms > 0,
          StrTruthy(c.consistency_model)>>)

-----------------------------------------------------------------------------
(* InteractiveAdvisor *)

Self(s) == [api |-> None, constraints |-> constraints[s], context |-> context[s]]

Pattern023 ==
    [id         |-> "pattern-023",
     name       |-> "Transactional Outbox Pattern",
     confidence |-> 92,
     rationale  |-> "Ensures atomic state changes with event publishing"]

Pattern001 ==
    [id         |-> "pattern-001",
     name       |-> "Actor Mailbox Backpressure",
     confidence |-> 95,
     rationale  |-> "Handles high load with graceful degradation"]

Pattern007 ==
    [id         |-> "pattern-007",
     name       |-> "OpenTelemetry Instrumentation",
     confidence |-> 98,
     rationale  |-> "Essential observability for all production services"]

HighLoadThreshold == 1000

MockConfidence == 87

Artifacts(service_name) ==
    <<[type |-> "proto",      path |-> <<"proto/", service_name, "/v1/service.proto">>],
      [type |-> "sql",        path |-> <<"db/schema.sql">>],
      [type |-> "kubernetes", path |-> <<"deploy/k8s/deployment.yaml">>],
      [type |-> "markdown",   path |-> <<"docs/ARCHITECTURE.md">>]>>

PatternsInclusive(c) ==
    (IF c.consistency_model = "strong" THEN <<Pattern023>> ELSE <<>>)
    \o (IF c.throughput_tps >= HighLoadThreshold THEN <<Pattern001>> ELSE <<>>)
    \o <<Pattern007>>

PatternsElif(c) ==
    (IF c.consistency_model = "strong" THEN <<Pattern023>>
     ELSE IF c.throughput_tps > HighLoadThreshold THEN <<Pattern001>>
     ELSE <<>>)
    \o <<Pattern007>>

Patterns(c) ==
    (IF c.consistency_model = "strong" THEN <<Pattern023>> ELSE <<>>)
    \o (IF c.throughput_tps > HighLoadThreshold THEN <<Pattern001>> ELSE <<>>)
    \o <<Pattern007>>

Returned(value) == [kind |-> "return", value |-> value]

Raised(exc, detail) == [kind |-> "raise", exc |-> exc, detail |-> detail]

MissingFields(c) ==
    {f \in {"service_name", "service_type", "consistency_model"} : c[f] = ""}
    \cup {f \in {"throughput_tps", "latency_p99_ms"} : ~(c[f] > 0)}

GenerateBlueprintMockChecked(self) ==
    IF IsComplete(self.constraints)
    THEN Returned([service_name |-> self.constraints.service_name,
                   confidence   |-> MockConfidence,
                   patterns     |-> Patterns(self.constraints),
                   artifacts    |-> Artifacts(self.constraints.service_name)])
    ELSE Raised("IncompleteConstraintsError", MissingFields(self.constraints))

RECURSIVE SumConfidence(_)
SumConfidence(patterns) ==
    IF patterns = <<>> THEN 0
    ELSE Head(patterns).confidence + SumConfidence(Tail(patterns))

GenerateBlueprintMockMean(self) ==
    Returned([service_name |-> self.constraints.service_name,
              confidence   |-> SumConfidence(Patterns(self.constraints))
                                   \div Len(Patterns(self.constraints)),
              patterns     |-> Patterns(self.constraints),
              artifacts    |-> Artifacts(self.constraints.service_name)])

GenerateBlueprintMock(self) ==
    Returned([service_name |-> self.constraints.service_name,
              confidence   |-> MockConfidence,
              patterns     |-> Patterns(self.constraints),
              artifacts    |-> Artifacts(self.constraints.service_name)])

-----------------------------------------------------------------------------
(* Direct use of the two classes, as tests/test_main.py does: construct an *)
(* advisor, assign attributes of its constraints in any order, call a      *)
(* method and look at what it returns.                                     *)

UnitValues ==
    [service_name      |-> {"", "test-service"},
     service_type      |-> {"", "api", "event_processor"},
     throughput_tps    |-> {-1, 0, 100, 1000, 2000},
     latency_p99_ms    |-> {-1, 0, 100},
     consistency_model |-> {"", "strong", "eventual"},
     integrations      |-> {<<>>, <<"kafka">>},
     team_size         |-> {0, 3},
     deployment_target |-> {"kubernetes", "nomad"}]

UnitFields == DOMAIN UnitValues

SessionUnchanged ==
    UNCHANGED <<context, pc, choice, use_case, recommendation, log, proceed,
                blueprint, exit_code, interrupted_at, saved, progress_file,
                argv, heard, said, offered>>

SetField(s, f, v) ==
    /\ pc[s] = "new"
    /\ constraints[s][f] # v
    /\ constraints' = [constraints EXCEPT ![s][f] = v]
    /\ ret' = NoRet
    /\ SessionUnchanged

CallIsComplete(s) ==
    /\ pc[s] = "new"
    /\ ret' = [op |-> "is_complete", outcome |-> Returned(IsComplete(constraints[s]))]
    /\ UNCHANGED constraints
    /\ SessionUnchanged

CallGenerateBlueprintMockDefaulting(s) ==
    /\ pc[s] = "new"
    /\ ret' = [op |-> "_generate_blueprint_mock", outcome |-> GenerateBlueprintMock(Self(s))]
    /\ constraints' =
           IF constraints[s].latency_p99_ms = 0
           THEN [constraints EXCEPT ![s].latency_p99_ms = 100]
           ELSE constraints
    /\ SessionUnchanged

CallGenerateBlueprintMock(s) ==
    /\ pc[s] = "new"
    /\ ret' = [op |-> "_generate_blueprint_mock", outcome |-> GenerateBlueprintMock(Self(s))]
    /\ UNCHANGED constraints
    /\ SessionUnchanged

Init ==
    /\ constraints = [s \in Sessions |-> NewConstraints]
    /\ context = [s \in Sessions |-> {}]
    /\ pc = [s \in Sessions |-> "new"]
    /\ choice = [s \in Sessions |-> None]
    /\ use_case = [s \in Sessions |-> None]
    /\ recommendation = [s \in Sessions |-> None]
    /\ log = [s \in Sessions |-> <<>>]
    /\ proceed = [s \in Sessions |-> {}]
    /\ blueprint = [s \in Sessions |-> NoBlueprint]
    /\ exit_code = [s \in Sessions |-> None]
    /\ interrupted_at = [s \in Sessions |-> None]
    /\ saved = [s \in Sessions |-> <<>>]
    /\ progress_file = NoFile
    /\ argv = [s \in Sessions |-> None]
    /\ heard = [s \in Sessions |-> NotHeard]
    /\ said = [s \in Sessions |-> {}]
    /\ offered = [s \in Sessions |-> NoOffer]
    /\ ret = NoRet

UnitNext ==
    \/ \E f \in UnitFields : \E v \in UnitValues[f] : SetField("s1", f, v)
    \/ CallIsComplete("s1")
    \/ CallGenerateBlueprintMock("s1")

SpecUnit == Init /\ [][UnitNext]_vars

-----------------------------------------------------------------------------
(* Free text and the keyword matching of the consistency phase *)

UpperCase == <<"A","B","C","D","E","F","G","H","I","J","K","L","M",
               "N","O","P","Q","R","S","T","U","V","W","X","Y","Z">>

LowerCase == <<"a","b","c","d","e","f","g","h","i","j","k","l","m",
               "n","o","p","q","r","s","t","u","v","w","x","y","z">>

\* str.lower() on one character.
LowerChar(ch) ==
    IF \E i \in 1..Len(UpperCase) : UpperCase[i] = ch
    THEN LowerCase[CHOOSE i \in 1..Len(UpperCase) : UpperCase[i] = ch]
    ELSE ch

LowerUnchanged(text) == text

Lower(text) == [i \in 1..Len(text) |-> LowerChar(text[i])]

\* Python's `needle in haystack` on str.
Contains(haystack, needle) ==
    \E i \in 0..(Len(haystack) - Len(needle)) :
        \A j \in 1..Len(needle) : haystack[i + j] = needle[j]

strong_indicators ==
    << <<"m","o","n","e","y">>,
       <<"p","a","y","m","e","n","t">>,
       <<"f","i","n","a","n","c","i","a","l">>,
       <<"t","r","a","n","s","a","c","t","i","o","n">>,
       <<"i","n","v","e","n","t","o","r","y">>,
       <<"s","t","o","c","k">>,
       <<"o","r","d","e","r">>,
       <<"a","u","t","h">>,
       <<"s","e","c","u","r","i","t","y">> >>

eventual_indicators ==
    << <<"f","e","e","d">>,
       <<"t","i","m","e","l","i","n","e">>,
       <<"s","o","c","i","a","l">>,
       <<"a","n","a","l","y","t","i","c","s">>,
       <<"r","e","c","o","m","m","e","n","d","a","t","i","o","n">>,
       <<"c","a","c","h","e">>,
       <<"v","i","e","w">>,
       <<"r","e","a","d">> >>

\* Python's any(indicator in text for indicator in indicators).
Any(indicators, text) ==
    \E k \in 1..Len(indicators) : Contains(text, indicators[k])

RecommendEventualFirst(use_case_text) ==
    LET use_case_lower == Lower(use_case_text) IN
    IF Any(eventual_indicators, use_case_lower) THEN "eventual"
    ELSE IF Any(strong_indicators, use_case_lower) THEN "strong"
    ELSE "strong"

Recommend(use_case_text) ==
    LET use_case_lower == Lower(use_case_text) IN
    IF Any(strong_indicators, use_case_lower) THEN "strong"
    ELSE IF Any(eventual_indicators, use_case_lower) THEN "eventual"
    ELSE "strong"

-----------------------------------------------------------------------------
(* The validator of the service-name prompt *)

Digits == {"0","1","2","3","4","5","6","7","8","9"}

Letters == {UpperCase[i] : i \in 1..Len(UpperCase)} \cup {LowerCase[i] : i \in 1..Len(LowerCase)}

\* str.isalnum() on ASCII text: non-empty and only letters and digits.
IsAlnum(text) == Len(text) > 0 /\ \A i \in 1..Len(text) : text[i] \in Letters \cup Digits

\* str.replace(ch, '')
Remove(text, ch) == SelectSeq(text, LAMBDA c : c # ch)

ValidNameAnything(text) == TRUE

\* validate= of the service-name prompt.
ValidName(text) == Len(text) > 0 /\ IsAlnum(Remove(Remove(text, "-"), "_"))

\* The characters of the names the model uses.
Spell(name) ==
    CASE name = "" -> <<>>
      [] name = "inventory-manager" ->
           <<"i","n","v","e","n","t","o","r","y","-","m","a","n","a","g","e","r">>
      [] name = "billing_api" ->
           <<"b","i","l","l","i","n","g","_","a","p","i">>
      [] name = "bad name!" ->
           <<"b","a","d"," ","n","a","m","e","!">>
      [] name = "test-service" ->
           <<"t","e","s","t","-","s","e","r","v","i","c","e">>

-----------------------------------------------------------------------------
(* The interview: init -> InteractiveAdvisor.run *)

PhaseOrderSwapped ==
    <<"performance", "identity", "consistency", "integrations", "team", "summary">>

PhaseOrder ==
    <<"identity", "performance", "consistency", "integrations", "team", "summary">>

\* The first prompt of each phase; the summary only prints.
FirstPrompt ==
    [identity     |-> "ask_service_name",
     performance  |-> "ask_throughput",
     consistency  |-> "ask_consistency",
     integrations |-> "ask_integrations",
     team         |-> "ask_team_size"]

PhaseOf ==
    [ask_service_name  |-> "identity",
     ask_service_type  |-> "identity",
     ask_throughput    |-> "performance",
     ask_latency       |-> "performance",
     ask_consistency   |-> "consistency",
     ask_use_case      |-> "consistency",
     ask_confirm       |-> "consistency",
     ask_manual        |-> "consistency",
     ask_integrations  |-> "integrations",
     ask_team_size     |-> "team"]

Prompts == DOMAIN PhaseOf \cup {"ask_proceed"}

\* Where run() stands after the calls before position i have returned: the
\* headers echoed on the way and the prompt it blocks on.
RECURSIVE Advance(_, _)
Advance(i, echoed) ==
    IF i > Len(PhaseOrder) THEN [log |-> echoed, pc |-> "ask_proceed"]
    ELSE IF PhaseOrder[i] = "summary" THEN Advance(i + 1, Append(echoed, "summary"))
    ELSE [log |-> Append(echoed, PhaseOrder[i]), pc |-> FirstPrompt[PhaseOrder[i]]]

\* The phase method that asked prompt p returns.
EndPhase(s, p) ==
    LET i == CHOOSE k \in 1..Len(PhaseOrder) : PhaseOrder[k] = PhaseOf[p]
        next == Advance(i + 1, log[s])
    IN /\ pc' = [pc EXCEPT ![s] = next.pc]
       /\ log' = [log EXCEPT ![s] = next.log]

ClearLocals(s) ==
    /\ choice' = [choice EXCEPT ![s] = None]
    /\ use_case' = [use_case EXCEPT ![s] = None]
    /\ recommendation' = [recommendation EXCEPT ![s] = None]

NameAnswers == {"inventory-manager"}

NameOptions == {None, "billing_api"}

ServiceTypes ==
    {"api", "event_processor", "background_worker", "stream_processor", "specialized"}

\* The answers drawn at the service-type prompt: one per branch of the code
\* that reads service_type (api, event_processor, anything else).
ServiceTypeAnswers == {"api", "event_processor", "specialized"}

ThroughputAnswers == {100, 2000}

LatencyAnswers == {100}

ConsistencyChoices == {"strong", "eventual", "help"}

ManualChoices == {"strong", "eventual"}

UseCaseAnswers ==
    { <<>>,
      <<"N","e","w","s"," ","F","e","e","d">>,
      <<"O","r","d","e","r"," ","f","e","e","d">>,
      <<"t","h","i","s"," ","t","r","a","c","k","s"," ","p","a","y","m","e","n","t",
        " ","t","r","a","n","s","a","c","t","i","o","n","s">> }

IntegrationSelections == {<<>>, <<"none">>, <<"kafka", "none">>, <<"postgresql", "redis">>}

TeamSizeAnswers == {3}

NonNegativeInt(n) == n >= 0

\* validate= of the numeric prompts, after int().
PositiveInt(n) == n > 0

\* `[] if 'none' in selected else selected`
NoneClearsAll(selected) ==
    IF \E i \in 1..Len(selected) : selected[i] = "none" THEN <<>> ELSE selected

\* [s for s in selected if s != 'none']
RECURSIVE FilterNone(_)
FilterNone(selected) ==
    IF selected = <<>> THEN <<>>
    ELSE IF Head(selected) # "none" THEN <<Head(selected)>> \o FilterNone(Tail(selected))
    ELSE FilterNone(Tail(selected))

\* The value .ask() returned to the session, with the prompt that asked.
Heard(s, value) == heard' = [heard EXCEPT ![s] = [prompt |-> pc[s], value |-> value]]

\* The prompt raised instead of returning.
HeardNothing(s) == heard' = [heard EXCEPT ![s] = NotHeard]

\* The advisory blocks the step echoes after its prompt returned.
Echo(s, notes) == said' = [said EXCEPT ![s] = notes]

DigitChars == <<"0","1","2","3","4","5","6","7","8","9">>

\* str.isdigit() on ASCII text.
IsDigit(text) == Len(text) > 0 /\ \A i \in 1..Len(text) : text[i] \in Digits

\* int(text) for a text of decimal digits.
RECURSIVE ParseInt(_)
ParseInt(text) ==
    IF text = <<>> THEN 0
    ELSE LET last == text[Len(text)] IN
         10 * ParseInt(SubSeq(text, 1, Len(text) - 1))
             + (CHOOSE d \in 0..9 : DigitChars[d + 1] = last)

ThroughputGuidanceFlat(c) ==
    [prompt        |-> "ask_throughput",
     typical_range |-> "10-1,000 operations/second",
     default_value |-> <<"1","0","0">>,
     unit          |-> "operations per second"]

\* "Throughput - adapt guidance based on service type"
ThroughputGuidance(c) ==
    IF c.service_type = "api"
    THEN [prompt        |-> "ask_throughput",
          typical_range |-> "100-10,000 requests/second",
          default_value |-> <<"1","0","0","0">>,
          unit          |-> "requests per second"]
    ELSE IF c.service_type = "event_processor"
    THEN [prompt        |-> "ask_throughput",
          typical_range |-> "50-5,000 messages/second",
          default_value |-> <<"5","0","0">>,
          unit          |-> "messages per second"]
    ELSE [prompt        |-> "ask_throughput",
          typical_range |-> "10-1,000 operations/second",
          default_value |-> <<"1","0","0">>,
          unit          |-> "operations per second"]

\* What the prompt the session blocks on next is built with.
Offer(s) ==
    offered' = [offered EXCEPT ![s] =
                   IF pc'[s] = "ask_throughput"
                   THEN ThroughputGuidance(constraints'[s])
                   ELSE NoOffer]

\* The answer of a session that presses Enter on the offered default.
AcceptedDefault(s) ==
    IF offered[s].prompt = "ask_throughput" /\ IsDigit(offered[s].default_value)
    THEN {ParseInt(offered[s].default_value)}
    ELSE {}

\* "Educational moment based on choice"
TypeNotes(service_type) ==
    IF service_type = "api" THEN {"api_typically_uses"}
    ELSE IF service_type = "event_processor" THEN {"event_processor_typically_uses"}
    ELSE {}

HighThroughput == 5000

LowLatency == 50

SmallTeam == 2

\* "Performance assessment"
PerformanceNotes(c) ==
    IF c.throughput_tps > HighThroughput /\ c.latency_p99_ms < LowLatency
    THEN {"high_throughput_low_latency"}
    ELSE {}

\* "Architectural implications"
ConsistencyNotes(model) ==
    IF model = "strong" THEN {"strong_consistency_enables"}
    ELSE {"eventual_consistency_enables"}

RecommendationNoteMerged(use_case_text) ==
    LET use_case_lower == Lower(use_case_text) IN
    IF Any(strong_indicators, use_case_lower) THEN "recommend_strong"
    ELSE IF Any(eventual_indicators, use_case_lower) THEN "recommend_eventual"
    ELSE "recommend_strong"

\* The message echoed with the recommendation.
RecommendationNote(use_case_text) ==
    LET use_case_lower == Lower(use_case_text) IN
    IF Any(strong_indicators, use_case_lower) THEN "recommend_strong"
    ELSE IF Any(eventual_indicators, use_case_lower) THEN "recommend_eventual"
    ELSE "default_to_strong"

\* Python's `x in list`.
In(x, list) == \E i \in 1..Len(list) : list[i] = x

\* "Pattern implications"
IntegrationNotes(c) ==
    (IF In("kafka", c.integrations) THEN {"kafka_detected"} ELSE {})
    \cup (IF In("postgresql", c.integrations) THEN {"postgresql_detected"} ELSE {})

TeamNotes(c) ==
    IF c.team_size <= SmallTeam THEN {"small_team_detected"} ELSE {}

UnitUnchanged == UNCHANGED ret

InitCommand(s, service_name, resume) ==
    /\ pc[s] = "new"
    /\ constraints[s] = NewConstraints
    /\ argv' = [argv EXCEPT ![s] = service_name]
    /\ constraints' =
           IF service_name # None
           THEN [constraints EXCEPT ![s].service_name = service_name]
           ELSE constraints
    /\ LET next == Advance(1, log[s]) IN
           /\ pc' = [pc EXCEPT ![s] = next.pc]
           /\ log' = [log EXCEPT ![s] = next.log]
    /\ UNCHANGED <<context, choice, use_case, recommendation, proceed, blueprint,
                   exit_code, interrupted_at, saved, progress_file>>
    /\ UNCHANGED heard
    /\ Echo(s, {"banner"} \cup (IF resume THEN {"resuming"} ELSE {}))
    /\ Offer(s)
    /\ UnitUnchanged

AskServiceName(s, answer) ==
    /\ pc[s] = "ask_service_name"
    /\ ValidName(Spell(answer))
    /\ constraints' = [constraints EXCEPT ![s].service_name = answer]
    /\ pc' = [pc EXCEPT ![s] = "ask_service_type"]
    /\ UNCHANGED <<context, choice, use_case, recommendation, log, proceed,
                   blueprint, exit_code, interrupted_at, saved, progress_file, argv>>
    /\ Heard(s, answer)
    /\ Echo(s, {})
    /\ Offer(s)
    /\ UnitUnchanged

AskServiceType(s, answer) ==
    /\ pc[s] = "ask_service_type"
    /\ answer \in ServiceTypes
    /\ constraints' = [constraints EXCEPT ![s].service_type = answer]
    /\ context' = [context EXCEPT ![s] = @ \cup {"service_type_chosen"}]
    /\ EndPhase(s, "ask_service_type")
    /\ UNCHANGED <<choice, use_case, recommendation, proceed, blueprint,
                   exit_code, interrupted_at, saved, progress_file, argv>>
    /\ Heard(s, answer)
    /\ Echo(s, TypeNotes(answer))
    /\ Offer(s)
    /\ UnitUnchanged

AskThroughput(s, answer) ==
    /\ pc[s] = "ask_throughput"
    /\ PositiveInt(answer)
    /\ constraints' = [constraints EXCEPT ![s].throughput_tps = answer]
    /\ pc' = [pc EXCEPT ![s] = "ask_latency"]
    /\ UNCHANGED <<context, choice, use_case, recommendation, log, proceed,
                   blueprint, exit_code, interrupted_at, saved, progress_file, argv>>
    /\ Heard(s, answer)
    /\ Echo(s, {})
    /\ Offer(s)
    /\ UnitUnchanged

AskLatencyClamping(s, answer) ==
    /\ pc[s] = "ask_latency"
    /\ PositiveInt(answer)
    /\ constraints' =
           IF constraints[s].throughput_tps > HighThroughput /\ answer < LowLatency
           THEN [constraints EXCEPT ![s].latency_p99_ms = answer,
                                    ![s].throughput_tps = HighThroughput]
           ELSE [constraints EXCEPT ![s].latency_p99_ms = answer]
    /\ EndPhase(s, "ask_latency")
    /\ UNCHANGED <<context, choice, use_case, recommendation, proceed, blueprint,
                   exit_code, interrupted_at, saved, progress_file, argv>>
    /\ Heard(s, answer)
    /\ Echo(s, {"high_throughput_low_latency"})
    /\ Offer(s)
    /\ UnitUnchanged

AskLatency(s, answer) ==
    /\ pc[s] = "ask_latency"
    /\ PositiveInt(answer)
    /\ constraints' = [constraints EXCEPT ![s].latency_p99_ms = answer]
    /\ EndPhase(s, "ask_latency")
    /\ UNCHANGED <<context, choice, use_case, recommendation, proceed, blueprint,
                   exit_code, interrupted_at, saved, progress_file, argv>>
    /\ Heard(s, answer)
    /\ Echo(s, PerformanceNotes(constraints'[s]))
    /\ Offer(s)
    /\ UnitUnchanged

AskConsistencyEager(s, answer) ==
    /\ pc[s] = "ask_consistency"
    /\ constraints' = [constraints EXCEPT ![s].consistency_model = answer]
    /\ IF answer = "help"
       THEN /\ choice' = [choice EXCEPT ![s] = answer]
            /\ pc' = [pc EXCEPT ![s] = "ask_use_case"]
            /\ UNCHANGED <<log, use_case, recommendation>>
       ELSE /\ EndPhase(s, "ask_consistency")
            /\ ClearLocals(s)
    /\ UNCHANGED <<context, proceed, blueprint, exit_code, interrupted_at, saved,
                   progress_file, argv>>
    /\ Heard(s, answer)
    /\ Echo(s, IF answer = "help" THEN {} ELSE ConsistencyNotes(answer))
    /\ Offer(s)
    /\ UnitUnchanged

AskConsistency(s, answer) ==
    /\ pc[s] = "ask_consistency"
    /\ IF answer = "help"
       THEN /\ choice' = [choice EXCEPT ![s] = answer]
            /\ pc' = [pc EXCEPT ![s] = "ask_use_case"]
            /\ UNCHANGED <<constraints, log, use_case, recommendation>>
       ELSE /\ constraints' = [constraints EXCEPT ![s].consistency_model = answer]
            /\ EndPhase(s, "ask_consistency")
            /\ ClearLocals(s)
    /\ UNCHANGED <<context, proceed, blueprint, exit_code, interrupted_at, saved,
                   progress_file, argv>>
    /\ Heard(s, answer)
    /\ Echo(s, IF answer = "help" THEN {} ELSE ConsistencyNotes(answer))
    /\ Offer(s)
    /\ UnitUnchanged

AskUseCase(s, answer) ==
    /\ pc[s] = "ask_use_case"
    /\ use_case' = [use_case EXCEPT ![s] = answer]
    /\ recommendation' = [recommendation EXCEPT ![s] = Recommend(answer)]
    /\ pc' = [pc EXCEPT ![s] = "ask_confirm"]
    /\ UNCHANGED <<constraints, context, choice, log, proceed, blueprint,
                   exit_code, interrupted_at, saved, progress_file, argv>>
    /\ Heard(s, answer)
    /\ Echo(s, {RecommendationNote(answer)})
    /\ Offer(s)
    /\ UnitUnchanged

AskConfirmLoop(s, confirmed) ==
    /\ pc[s] = "ask_confirm"
    /\ IF confirmed
       THEN /\ constraints' =
                   [constraints EXCEPT ![s].consistency_model = recommendation[s]]
            /\ EndPhase(s, "ask_confirm")
            /\ ClearLocals(s)
       ELSE /\ pc' = [pc EXCEPT ![s] = "ask_use_case"]
            /\ UNCHANGED <<constraints, log, choice, use_case, recommendation>>
    /\ UNCHANGED <<context, proceed, blueprint, exit_code, interrupted_at, saved,
                   progress_file, argv>>
    /\ Heard(s, confirmed)
    /\ Echo(s, IF confirmed THEN ConsistencyNotes(recommendation[s]) ELSE {})
    /\ Offer(s)
    /\ UnitUnchanged

AskConfirm(s, confirmed) ==
    /\ pc[s] = "ask_confirm"
    /\ IF confirmed
       THEN /\ constraints' =
                   [constraints EXCEPT ![s].consistency_model = recommendation[s]]
            /\ EndPhase(s, "ask_confirm")
            /\ ClearLocals(s)
       ELSE /\ pc' = [pc EXCEPT ![s] = "ask_manual"]
            /\ UNCHANGED <<constraints, log, choice, use_case, recommendation>>
    /\ UNCHANGED <<context, proceed, blueprint, exit_code, interrupted_at, saved,
                   progress_file, argv>>
    /\ Heard(s, confirmed)
    /\ Echo(s, IF confirmed THEN ConsistencyNotes(recommendation[s]) ELSE {})
    /\ Offer(s)
    /\ UnitUnchanged

AskManualKeepsRecommendation(s, answer) ==
    /\ pc[s] = "ask_manual"
    /\ constraints' = [constraints EXCEPT ![s].consistency_model = recommendation[s]]
    /\ EndPhase(s, "ask_manual")
    /\ ClearLocals(s)
    /\ UNCHANGED <<context, proceed, blueprint, exit_code, interrupted_at, saved,
                   progress_file, argv>>
    /\ Heard(s, answer)
    /\ Echo(s, ConsistencyNotes(recommendation[s]))
    /\ Offer(s)
    /\ UnitUnchanged

AskManual(s, answer) ==
    /\ pc[s] = "ask_manual"
    /\ constraints' = [constraints EXCEPT ![s].consistency_model = answer]
    /\ EndPhase(s, "ask_manual")
    /\ ClearLocals(s)
    /\ UNCHANGED <<context, proceed, blueprint, exit_code, interrupted_at, saved,
                   progress_file, argv>>
    /\ Heard(s, answer)
    /\ Echo(s, ConsistencyNotes(answer))
    /\ Offer(s)
    /\ UnitUnchanged

AskIntegrationsShared(s, selected) ==
    /\ pc[s] = "ask_integrations"
    /\ constraints' = [t \in Sessions |->
                           [constraints[t] EXCEPT !.integrations = FilterNone(selected)]]
    /\ EndPhase(s, "ask_integrations")
    /\ UNCHANGED <<context, choice, use_case, recommendation, proceed, blueprint,
                   exit_code, interrupted_at, saved, progress_file, argv>>
    /\ Heard(s, selected)
    /\ Echo(s, IntegrationNotes(constraints'[s]))
    /\ Offer(s)
    /\ UnitUnchanged

AskIntegrations(s, selected) ==
    /\ pc[s] = "ask_integrations"
    /\ constraints' = [constraints EXCEPT ![s].integrations = FilterNone(selected)]
    /\ EndPhase(s, "ask_integrations")
    /\ UNCHANGED <<context, choice, use_case, recommendation, proceed, blueprint,
                   exit_code, interrupted_at, saved, progress_file, argv>>
    /\ Heard(s, selected)
    /\ Echo(s, IntegrationNotes(constraints'[s]))
    /\ Offer(s)
    /\ UnitUnchanged

AskTeamSize(s, answer) ==
    /\ pc[s] = "ask_team_size"
    /\ PositiveInt(answer)
    /\ constraints' = [constraints EXCEPT ![s].team_size = answer]
    /\ EndPhase(s, "ask_team_size")
    /\ UNCHANGED <<context, choice, use_case, recommendation, proceed, blueprint,
                   exit_code, interrupted_at, saved, progress_file, argv>>
    /\ Heard(s, answer)
    /\ Echo(s, TeamNotes(constraints'[s]))
    /\ Offer(s)
    /\ UnitUnchanged

\* run() after _confirm_proceed returned True: the blueprint is generated,
\* displayed and its stub files written; run() and init return and the
\* process ends.  An exception other than KeyboardInterrupt leaves run().
GenerateAndFinishJitter(s) ==
    LET outcome == GenerateBlueprintMock(Self(s)) IN
    \E jitter \in {0, 1} :
        /\ blueprint' = [blueprint EXCEPT ![s] =
               [generated |-> TRUE,
                value |-> [outcome.value EXCEPT !.confidence = @ + jitter]]]
        /\ log' = [log EXCEPT ![s] = Append(@, "blueprint")]
        /\ pc' = [pc EXCEPT ![s] = "done"]
        /\ exit_code' = [exit_code EXCEPT ![s] = 0]

GenerateAndFinish(s) ==
    LET outcome == GenerateBlueprintMock(Self(s)) IN
    IF outcome.kind = "return"
    THEN /\ blueprint' = [blueprint EXCEPT ![s] =
                             [generated |-> TRUE, value |-> outcome.value]]
         /\ log' = [log EXCEPT ![s] = Append(@, "blueprint")]
         /\ pc' = [pc EXCEPT ![s] = "done"]
         /\ exit_code' = [exit_code EXCEPT ![s] = 0]
    ELSE /\ pc' = [pc EXCEPT ![s] = "crashed"]
         /\ exit_code' = [exit_code EXCEPT ![s] = 1]
         /\ UNCHANGED <<blueprint, log>>

AskProceedSavesOnDecline(s, answer) ==
    /\ pc[s] = "ask_proceed"
    /\ proceed' = [proceed EXCEPT ![s] = {answer}]
    /\ IF answer
       THEN /\ GenerateAndFinish(s)
            /\ UNCHANGED <<saved, progress_file>>
       ELSE /\ pc' = [pc EXCEPT ![s] = "done"]
            /\ exit_code' = [exit_code EXCEPT ![s] = 0]
            /\ progress_file' = [exists |-> TRUE, content |-> ToDict(constraints[s])]
            /\ saved' = [saved EXCEPT ![s] = Append(@, ToDict(constraints[s]))]
            /\ UNCHANGED <<blueprint, log>>
    /\ UNCHANGED <<constraints, context, choice, use_case, recommendation,
                   interrupted_at, argv>>
    /\ Heard(s, answer)
    /\ Echo(s, IF answer THEN {"next_steps"} ELSE {"no_problem"})
    /\ Offer(s)
    /\ UnitUnchanged

\* The final confirmation returns.
AskProceed(s, answer) ==
    /\ pc[s] = "ask_proceed"
    /\ proceed' = [proceed EXCEPT ![s] = {answer}]
    /\ IF answer
       THEN GenerateAndFinish(s)
       ELSE /\ pc' = [pc EXCEPT ![s] = "done"]
            /\ exit_code' = [exit_code EXCEPT ![s] = 0]
            /\ UNCHANGED <<blueprint, log>>
    /\ UNCHANGED <<constraints, context, choice, use_case, recommendation,
                   interrupted_at, saved, progress_file, argv>>
    /\ Heard(s, answer)
    /\ Echo(s, IF answer THEN {"next_steps"} ELSE {"no_problem"})
    /\ Offer(s)
    /\ UnitUnchanged

\* json.dump(self.constraints.to_dict(), f) on a file opened with 'w'.
SaveProgress(self) == [exists |-> TRUE, content |-> ToDict(self.constraints)]

InterruptErrorExit(s) ==
    /\ pc[s] \in Prompts
    /\ interrupted_at' = [interrupted_at EXCEPT ![s] = pc[s]]
    /\ exit_code' = [exit_code EXCEPT ![s] = 1]
    /\ pc' = [pc EXCEPT ![s] = "exited"]
    /\ ClearLocals(s)
    /\ UNCHANGED <<constraints, context, log, proceed, blueprint, argv, saved,
                   progress_file>>
    /\ HeardNothing(s)
    /\ Echo(s, {"interrupted"})
    /\ Offer(s)
    /\ UnitUnchanged

\* KeyboardInterrupt raised by the prompt the session is blocked on: the
\* except clause of run() saves the progress and calls sys.exit(0).
Interrupt(s) ==
    /\ pc[s] \in Prompts
    /\ interrupted_at' = [interrupted_at EXCEPT ![s] = pc[s]]
    /\ progress_file' = SaveProgress(Self(s))
    /\ saved' = [saved EXCEPT ![s] = Append(@, SaveProgress(Self(s)).content)]
    /\ exit_code' = [exit_code EXCEPT ![s] = 0]
    /\ pc' = [pc EXCEPT ![s] = "exited"]
    /\ ClearLocals(s)
    /\ UNCHANGED <<constraints, context, log, proceed, blueprint, argv>>
    /\ HeardNothing(s)
    /\ Echo(s, {"interrupted", "progress_saved"})
    /\ Offer(s)
    /\ UnitUnchanged

Next ==
    \E s \in Sessions :
        \/ \E n \in NameOptions : \E r \in BOOLEAN : InitCommand(s, n, r)
        \/ \E a \in NameAnswers : AskServiceName(s, a)
        \/ \E a \in ServiceTypeAnswers : AskServiceType(s, a)
        \/ \E a \in ThroughputAnswers : AskThroughput(s, a)
        \/ \E a \in LatencyAnswers : AskLatency(s, a)
        \/ \E a \in ConsistencyChoices : AskConsistency(s, a)
        \/ \E a \in UseCaseAnswers : AskUseCase(s, a)
        \/ \E a \in BOOLEAN : AskConfirm(s, a)
        \/ \E a \in ManualChoices : AskManual(s, a)
        \/ \E a \in IntegrationSelections : AskIntegrations(s, a)
        \/ \E a \in TeamSizeAnswers : AskTeamSize(s, a)
        \/ \E a \in BOOLEAN : AskProceed(s, a)
        \/ Interrupt(s)

Spec == Init /\ [][Next]_vars

-----------------------------------------------------------------------------
(* One init session on its own, with wider inputs *)

MaxWords == 2

Words ==
    { <<"p","a","y">>, <<"M","E","N","T">>, <<"A","u","t","h">>, <<"f","e","e","d">>,
      <<"V","i","E","w">>, <<"r","e">>, <<"a","d">>, <<" ">> }

\* Every text made of at most n words, one after the other.
RECURSIVE TextsUpTo(_)
TextsUpTo(n) ==
    IF n = 0 THEN {<<>>}
    ELSE LET shorter == TextsUpTo(n - 1) IN
         shorter \cup {t \o w : t \in shorter, w \in Words}

SoloUseCases == TextsUpTo(MaxWords) \cup UseCaseAnswers

SoloNameOptions == NameOptions \cup {"bad name!"}

\* What is typed at the service-name prompt; the validator rejects the last.
SoloNameInputs == NameAnswers \cup {"billing_api", "bad name!"}

\* What is typed at the numeric prompts; the validator rejects 0.
SoloThroughputs == ThroughputAnswers \cup {6000, 0}

SoloLatencies == LatencyAnswers \cup {40, 0}

SoloTeamSizes == TeamSizeAnswers \cup {2, 0}

SoloNext ==
    \/ \E n \in SoloNameOptions : \E r \in BOOLEAN : InitCommand("s1", n, r)
    \/ \E a \in SoloNameInputs : AskServiceName("s1", a)
    \/ \E a \in ServiceTypes : AskServiceType("s1", a)
    \/ \E a \in SoloThroughputs \cup AcceptedDefault("s1") : AskThroughput("s1", a)
    \/ \E a \in SoloLatencies : AskLatency("s1", a)
    \/ \E a \in ConsistencyChoices : AskConsistency("s1", a)
    \/ \E a \in SoloUseCases : AskUseCase("s1", a)
    \/ \E a \in BOOLEAN : AskConfirm("s1", a)
    \/ \E a \in ManualChoices : AskManual("s1", a)
    \/ \E a \in IntegrationSelections : AskIntegrations("s1", a)
    \/ \E a \in SoloTeamSizes : AskTeamSize("s1", a)
    \/ \E a \in BOOLEAN : AskProceed("s1", a)
    \/ Interrupt("s1")

SpecSolo == Init /\ [][SoloNext]_vars

-----------------------------------------------------------------------------
(* Properties of the classes used directly (SpecUnit) *)

Unit == constraints["s1"]

RequiredFieldsSet(c) ==
    /\ c.service_name # ""
    /\ c.service_type # ""
    /\ c.throughput_tps > 0
    /\ c.latency_p99_ms > 0
    /\ c.consistency_model # ""

IsCompleteReturned == ret.op = "is_complete"

GenerateReturned ==
    /\ ret.op = "_generate_blueprint_mock"
    /\ ret.outcome.kind = "return"

PatternIds(b) == {b.patterns[i].id : i \in 1..Len(b.patterns)}

PatternNames(b) == {b.patterns[i].name : i \in 1..Len(b.patterns)}

\* C1: is_complete() returns True exactly when service_name and service_type
\* are non-empty, throughput_tps > 0, latency_p99_ms > 0 and
\* consistency_model is non-empty, whatever the order in which the attributes
\* were assigned and whatever integrations, team_size and deployment_target
\* hold.
C1_IsCompleteIffRequired ==
    IsCompleteReturned =>
        /\ ret.outcome.kind = "return"
        /\ ret.outcome.value = RequiredFieldsSet(Unit)

C1_Witness ==
    /\ IsCompleteReturned
    /\ ret.outcome.value = TRUE
    /\ Unit.team_size = 0
    /\ Unit.integrations = <<"kafka">>
    /\ Unit.deployment_target = "nomad"

C3_PatternIffPredicate ==
    GenerateReturned =>
        LET b == ret.outcome.value IN
        /\ ("pattern-023" \in PatternIds(b)) <=> (Unit.consistency_model = "strong")
        /\ ("pattern-001" \in PatternIds(b)) <=> (Unit.throughput_tps > 1000)
        /\ "pattern-007" \in PatternIds(b)
        /\ PatternIds(b) \subseteq {"pattern-023", "pattern-001", "pattern-007"}
        /\ Cardinality(PatternIds(b)) = Len(b.patterns)
        /\ (Unit.throughput_tps = 100 /\ Unit.consistency_model = "eventual")
               => PatternIds(b) = {"pattern-007"}

C3_Witness ==
    /\ GenerateReturned
    /\ Unit.throughput_tps = 100
    /\ Unit.consistency_model = "eventual"
    /\ PatternIds(ret.outcome.value) = {"pattern-007"}

\* C4: with throughput_tps above 1000 and consistency_model = strong the
\* blueprint lists the Actor, the Transactional Outbox and the OpenTelemetry
\* pattern, at least 3 entries; its service_name is the ConstraintSet's and
\* it has the keys patterns, artifacts and confidence.
C4_HighLoadStrongBlueprint ==
    (GenerateReturned /\ Unit.throughput_tps > 1000 /\ Unit.consistency_model = "strong") =>
        LET b == ret.outcome.value IN
        /\ "Actor Mailbox Backpressure" \in PatternNames(b)
        /\ "Transactional Outbox Pattern" \in PatternNames(b)
        /\ "OpenTelemetry Instrumentation" \in PatternNames(b)
        /\ Len(b.patterns) >= 3
        /\ b.service_name = Unit.service_name
        /\ {"patterns", "artifacts", "confidence"} \subseteq DOMAIN b

C4_Witness ==
    /\ GenerateReturned
    /\ Unit.service_name = "test-service"
    /\ Unit.service_type = "api"
    /\ Unit.throughput_tps = 2000
    /\ Unit.consistency_model = "strong"
    /\ Len(ret.outcome.value.patterns) = 3

\* C5 as stated: the pattern list is ordered by descending confidence, every
\* entry's confidence being at least that of the entry after it.
C5_DescendingConfidence ==
    GenerateReturned =>
        LET ps == ret.outcome.value.patterns IN
        \A i \in 1..Len(ps) : \A j \in 1..Len(ps) :
            i < j => ps[i].confidence >= ps[j].confidence

-----------------------------------------------------------------------------
(* Properties of the interview (Spec) *)

IsPrefix(a, b) == Len(a) <= Len(b) /\ \A i \in 1..Len(a) : a[i] = b[i]

Echoed(s, header) == \E i \in 1..Len(log[s]) : log[s][i] = header

SameFields(snap, c) ==
    /\ snap.service_name = c.service_name
    /\ snap.service_type = c.service_type
    /\ snap.throughput_tps = c.throughput_tps
    /\ snap.latency_p99_ms = c.latency_p99_ms
    /\ snap.consistency_model = c.consistency_model
    /\ snap.integrations = c.integrations
    /\ snap.data_volume_gb = c.data_volume_gb
    /\ snap.team_size = c.team_size
    /\ snap.deployment_target = c.deployment_target

C7_FixedPhaseOrder ==
    \A s \in Sessions :
        /\ IsPrefix(log[s], <<"identity", "performance", "consistency",
                              "integrations", "team", "summary", "blueprint">>)
        /\ Echoed(s, "performance") =>
               /\ constraints[s].service_name # ""
               /\ constraints[s].service_type # ""
        /\ Echoed(s, "consistency") =>
               /\ constraints[s].throughput_tps > 0
               /\ constraints[s].latency_p99_ms > 0
        /\ Echoed(s, "integrations") =>
               constraints[s].consistency_model \in {"strong", "eventual"}
        /\ Echoed(s, "summary") => constraints[s].team_size > 0
        /\ blueprint[s].generated => (Echoed(s, "summary") /\ proceed[s] = {TRUE})
        /\ Echoed(s, "blueprint") => blueprint[s].generated

C7_Witness ==
    \E s \in Sessions :
        /\ pc[s] = "done"
        /\ blueprint[s].generated
        /\ Len(log[s]) = 7

\* C8: when KeyboardInterrupt is raised at a prompt (the final confirmation
\* included) the session echoes no further header and asks nothing more, its
\* ConstraintSet stays as it was, exactly that ConstraintSet is dumped to the
\* progress file, once, and the process exits with status 0; after that the
\* session never moves again.
C8_CancelSavesAndExits ==
    [][\A s \in Sessions :
          /\ (interrupted_at[s] = None /\ interrupted_at'[s] # None) =>
                 /\ pc[s] \in Prompts
                 /\ interrupted_at'[s] = pc[s]
                 /\ pc'[s] = "exited"
                 /\ exit_code'[s] = 0
                 /\ constraints'[s] = constraints[s]
                 /\ log'[s] = log[s]
                 /\ saved[s] = <<>>
                 /\ Len(saved'[s]) = 1
                 /\ SameFields(saved'[s][1], constraints[s])
                 /\ progress_file'.exists
                 /\ SameFields(progress_file'.content, constraints[s])
          /\ (pc[s] = "exited") =>
                 /\ pc'[s] = "exited"
                 /\ exit_code'[s] = 0
                 /\ constraints'[s] = constraints[s]
                 /\ log'[s] = log[s]
                 /\ saved'[s] = saved[s]
                 /\ blueprint'[s] = blueprint[s]
          /\ (pc'[s] = "exited") => interrupted_at'[s] # None
      ]_vars

C8_Witness ==
    \E s \in Sessions :
        /\ pc[s] = "exited"
        /\ interrupted_at[s] = "ask_proceed"
        /\ Len(saved[s]) = 1
        /\ exit_code[s] = 0

PromptRank ==
    [ask_service_name  |-> 1,
     ask_service_type  |-> 2,
     ask_throughput    |-> 3,
     ask_latency       |-> 4,
     ask_consistency   |-> 5,
     ask_use_case      |-> 6,
     ask_confirm       |-> 7,
     ask_manual        |-> 8,
     ask_integrations  |-> 9,
     ask_team_size     |-> 10,
     ask_proceed       |-> 11]

\* What the snapshot of a cancelled session holds apart from service_name.
SnapshotLaterFields(snap, at) ==
    /\ (snap.service_type # "") <=> (PromptRank[at] > 2)
    /\ (snap.throughput_tps > 0) <=> (PromptRank[at] > 3)
    /\ (snap.throughput_tps = 0) <=> (PromptRank[at] <= 3)
    /\ (snap.latency_p99_ms > 0) <=> (PromptRank[at] > 4)
    /\ (snap.latency_p99_ms = 0) <=> (PromptRank[at] <= 4)
    /\ (snap.consistency_model = "") <=> (PromptRank[at] <= 8)
    /\ (snap.consistency_model \in {"strong", "eventual"}) <=> (PromptRank[at] > 8)
    /\ (PromptRank[at] <= 9) => snap.integrations = <<>>
    /\ (snap.team_size > 0) <=> (PromptRank[at] > 10)
    /\ (snap.team_size = 0) <=> (PromptRank[at] <= 10)
    /\ snap.data_volume_gb = 0
    /\ snap.deployment_target = "kubernetes"
    /\ (at = "ask_consistency") =>
           /\ snap.service_name # ""
           /\ snap.service_type # ""
           /\ snap.throughput_tps > 0
           /\ snap.latency_p99_ms > 0
           /\ snap.consistency_model = ""
           /\ snap.integrations = <<>>
           /\ snap.team_size = 0
    /\ (at \in {"ask_use_case", "ask_confirm", "ask_manual"}) =>
           snap.consistency_model = ""

\* C9 as stated: the snapshot saved on cancellation holds exactly the values
\* whose prompts had returned: a field is set when its prompt had returned
\* and at its default when it had not (service_name included), and nothing of
\* the consistency help dialogue is in it.
C9_SnapshotOnlyPromptValues ==
    \A s \in Sessions :
        pc[s] = "exited" =>
            /\ (saved[s][1].service_name # "") <=> (PromptRank[interrupted_at[s]] > 1)
            /\ SnapshotLaterFields(saved[s][1], interrupted_at[s])

\* C9 as amended: as stated, except that a service_name whose prompt had not
\* returned is the value given with --service-name when there is one, and
\* empty otherwise.
C9_SnapshotPromptOrPresetValues ==
    \A s \in Sessions :
        pc[s] = "exited" =>
            /\ (PromptRank[interrupted_at[s]] > 1) => saved[s][1].service_name # ""
            /\ (PromptRank[interrupted_at[s]] = 1) =>
                   saved[s][1].service_name = (IF argv[s] = None THEN "" ELSE argv[s])
            /\ SnapshotLaterFields(saved[s][1], interrupted_at[s])

C9_Witness ==
    \E s \in Sessions :
        /\ pc[s] = "exited"
        /\ interrupted_at[s] = "ask_manual"
        /\ saved[s][1].throughput_tps = 2000
        /\ saved[s][1].consistency_model = ""

ConsistencyPrompts == {"ask_consistency", "ask_use_case", "ask_confirm", "ask_manual"}

\* C10: consistency_model only ever holds "", strong or eventual; inside the
\* consistency phase every answer moves the dialogue strictly forward
\* through its four prompts (so at most four are asked) with
\* consistency_model still empty, or ends the phase with strong or eventual
\* written; outside the phase consistency_model does not change.
C10_ConsistencyEndsStrongOrEventual ==
    [][\A s \in Sessions :
          /\ constraints'[s].consistency_model \in {"", "strong", "eventual"}
          /\ (pc[s] \in ConsistencyPrompts /\ pc'[s] # pc[s]) =>
                 \/ /\ pc'[s] \in ConsistencyPrompts
                    /\ PromptRank[pc'[s]] > PromptRank[pc[s]]
                    /\ constraints'[s].consistency_model = ""
                 \/ /\ pc'[s] = "ask_integrations"
                    /\ constraints[s].consistency_model = ""
                    /\ constraints'[s].consistency_model \in {"strong", "eventual"}
                 \/ /\ pc'[s] = "exited"
                    /\ constraints'[s].consistency_model = ""
          /\ (pc[s] \notin ConsistencyPrompts) =>
                 constraints'[s].consistency_model = constraints[s].consistency_model
      ]_vars

C10_Witness ==
    \E s \in Sessions :
        /\ pc[s] = "ask_integrations"
        /\ constraints[s].consistency_model = "eventual"
        /\ constraints[s].throughput_tps = 100

-----------------------------------------------------------------------------
(* Properties of one init session (SpecSolo) *)

NameCharacters == Letters \cup Digits \cup {"-", "_"}

WellFormedName(text) ==
    /\ Len(text) > 0
    /\ \A i \in 1..Len(text) : text[i] \in NameCharacters
    /\ \E i \in 1..Len(text) : text[i] \in Letters \cup Digits

KnownIntegrations ==
    {"kafka", "postgresql", "redis", "elasticsearch", "s3", "rest_api", "grpc"}

\* C11 as stated: in every reachable state service_name is empty or a
\* well-formed name the validator accepts, service_type is empty or one of
\* the five types, the three numbers are 0 or positive, consistency_model is
\* empty, strong or eventual, and integrations holds known systems only;
\* also when the name comes from --service-name.
C11_NoInvalidValue ==
    \A s \in Sessions :
        LET c == constraints[s] IN
        /\ c.service_name = "" \/ WellFormedName(Spell(c.service_name))
        /\ c.service_type \in {"", "api", "event_processor", "background_worker",
                               "stream_processor", "specialized"}
        /\ c.throughput_tps >= 0
        /\ c.latency_p99_ms >= 0
        /\ c.team_size >= 0
        /\ c.consistency_model \in {"", "strong", "eventual"}
        /\ \A i \in 1..Len(c.integrations) : c.integrations[i] \in KnownIntegrations

OwnFields ==
    [ask_service_name  |-> {"service_name"},
     ask_service_type  |-> {"service_type"},
     ask_throughput    |-> {"throughput_tps"},
     ask_latency       |-> {"latency_p99_ms"},
     ask_consistency   |-> {"consistency_model"},
     ask_use_case      |-> {"consistency_model"},
     ask_confirm       |-> {"consistency_model"},
     ask_manual        |-> {"consistency_model"},
     ask_integrations  |-> {"integrations"},
     ask_team_size     |-> {"team_size"},
     ask_proceed       |-> {}]

\* C12 as stated: a step of the interview changes only fields of the phase
\* it belongs to, and never a field that already holds a value, whether an
\* earlier phase set it or it was supplied before the interview started.
C12_PhasesWriteOwnUnsetFields ==
    [][\A s \in Sessions : \A f \in DOMAIN NewConstraints :
          (pc[s] \in Prompts /\ constraints'[s][f] # constraints[s][f]) =>
              /\ f \in OwnFields[pc[s]]
              /\ constraints[s][f] = NewConstraints[f]
      ]_vars

\* C13 as stated: with --service-name N the service-name prompt is never
\* asked and service_name is N from then on.
C13_PresuppliedNameKept ==
    \A s \in Sessions :
        (pc[s] # "new" /\ argv[s] # None) =>
            /\ pc[s] # "ask_service_name"
            /\ constraints[s].service_name = argv[s]

SameLetter(a, b) ==
    \/ a = b
    \/ \E i \in 1..Len(UpperCase) : {a, b} = {UpperCase[i], LowerCase[i]}

\* word occurs in text, letter case ignored
Mentions(text, word) ==
    \E k \in 0..(Len(text) - Len(word)) :
        \A j \in 1..Len(word) : SameLetter(text[k + j], word[j])

MentionsStrong(text) ==
    \E w \in { <<"m","o","n","e","y">>, <<"p","a","y","m","e","n","t">>,
               <<"f","i","n","a","n","c","i","a","l">>,
               <<"t","r","a","n","s","a","c","t","i","o","n">>,
               <<"i","n","v","e","n","t","o","r","y">>, <<"s","t","o","c","k">>,
               <<"o","r","d","e","r">>, <<"a","u","t","h">>,
               <<"s","e","c","u","r","i","t","y">> } : Mentions(text, w)

MentionsEventual(text) ==
    \E w \in { <<"f","e","e","d">>, <<"t","i","m","e","l","i","n","e">>,
               <<"s","o","c","i","a","l">>, <<"a","n","a","l","y","t","i","c","s">>,
               <<"r","e","c","o","m","m","e","n","d","a","t","i","o","n">>,
               <<"c","a","c","h","e">>, <<"v","i","e","w">>, <<"r","e","a","d">> } :
        Mentions(text, w)

\* The session has classified a free text and not left the help dialogue.
Classified(s) == pc[s] \in {"ask_confirm", "ask_manual"}

\* C14: a free text with at least one strong and at least one eventual
\* keyword, in any order and letter case, is classified strong.
C14_StrongWins ==
    \A s \in Sessions :
        (Classified(s) /\ MentionsStrong(use_case[s]) /\ MentionsEventual(use_case[s])) =>
            /\ recommendation[s] = "strong"
            /\ pc[s] = "ask_confirm" => said[s] = {"recommend_strong"}

C14_Witness ==
    \E s \in Sessions :
        /\ pc[s] = "ask_confirm"
        /\ use_case[s] = <<"f","e","e","d","A","u","t","h">>
        /\ recommendation[s] = "strong"

\* C15: a free text with no keyword at all, the empty one included, is
\* classified without error into the outcome of its own (neither keyword
\* message): strong is proposed with the default-to-strong message; no free
\* text makes the session crash.
C15_NoKeywordDefaultsToStrong ==
    \A s \in Sessions :
        /\ pc[s] # "crashed"
        /\ (Classified(s) /\ ~MentionsStrong(use_case[s]) /\ ~MentionsEventual(use_case[s])) =>
               /\ recommendation[s] = "strong"
               /\ pc[s] = "ask_confirm" => said[s] = {"default_to_strong"}
        /\ (pc[s] = "ask_confirm" /\ said[s] = {"default_to_strong"}) =>
               (~MentionsStrong(use_case[s]) /\ ~MentionsEventual(use_case[s]))

C15_Witness ==
    \E s \in Sessions :
        /\ pc[s] = "ask_confirm"
        /\ use_case[s] = <<>>
        /\ recommendation[s] = "strong"
        /\ said[s] = {"default_to_strong"}

SwapCaseChar(ch) ==
    IF \E i \in 1..Len(UpperCase) : UpperCase[i] = ch
    THEN LowerCase[CHOOSE i \in 1..Len(UpperCase) : UpperCase[i] = ch]
    ELSE IF \E i \in 1..Len(LowerCase) : LowerCase[i] = ch
    THEN UpperCase[CHOOSE i \in 1..Len(LowerCase) : LowerCase[i] = ch]
    ELSE ch

SwapCase(text) == [i \in 1..Len(text) |-> SwapCaseChar(text[i])]

PaymentTransactions ==
    <<"t","h","i","s"," ","t","r","a","c","k","s"," ","p","a","y","m","e","n","t",
      " ","t","r","a","n","s","a","c","t","i","o","n","s">>

\* C16: a free text is classified strong exactly when it contains a strong
\* keyword as a substring, letter case ignored, and eventual exactly when it
\* contains no strong but an eventual keyword; the text with every letter's
\* case swapped is classified the same; "this tracks payment transactions"
\* is classified strong.
C16_CaseInsensitiveSubstring ==
    \A s \in Sessions :
        pc[s] = "ask_confirm" =>
            /\ (said[s] = {"recommend_strong"}) <=> MentionsStrong(use_case[s])
            /\ (said[s] = {"recommend_eventual"}) <=>
                   (~MentionsStrong(use_case[s]) /\ MentionsEventual(use_case[s]))
            /\ (recommendation[s] = "eventual") <=>
                   (~MentionsStrong(use_case[s]) /\ MentionsEventual(use_case[s]))
            /\ recommendation[s] = Recommend(SwapCase(use_case[s]))
            /\ said[s] = {RecommendationNote(SwapCase(use_case[s]))}
            /\ (use_case[s] = PaymentTransactions) => recommendation[s] = "strong"

C16_Witness ==
    \E s \in Sessions :
        /\ pc[s] = "ask_confirm"
        /\ use_case[s] = <<"V","i","E","w">>
        /\ recommendation[s] = "eventual"
        /\ said[s] = {"recommend_eventual"}

\* C17: when the confirmation of the recommendation returns True,
\* consistency_model becomes that recommendation and the phase ends; when it
\* returns False nothing is written and the manual choice is asked, and
\* consistency_model becomes exactly what that choice returns.
C17_ConfirmOrManualChoice ==
    [][\A s \in Sessions :
          /\ (pc[s] = "ask_confirm" /\ heard'[s].prompt = "ask_confirm") =>
                 IF heard'[s].value
                 THEN /\ constraints'[s].consistency_model = recommendation[s]
                      /\ pc'[s] = "ask_integrations"
                 ELSE /\ constraints'[s].consistency_model = ""
                      /\ pc'[s] = "ask_manual"
          /\ (pc[s] = "ask_manual" /\ heard'[s].prompt = "ask_manual") =>
                 /\ heard'[s].value \in {"strong", "eventual"}
                 /\ constraints'[s].consistency_model = heard'[s].value
                 /\ pc'[s] = "ask_integrations"
      ]_vars

C17_Witness ==
    \E s \in Sessions :
        /\ pc[s] = "ask_integrations"
        /\ heard[s].prompt = "ask_manual"
        /\ heard[s].value = "eventual"
        /\ constraints[s].consistency_model = "eventual"

-----------------------------------------------------------------------------
(* Further properties of two sessions (Spec) and of direct calls (SpecUnit) *)

\* C18 as stated: every snapshot a session saved holds each ConstraintSet
\* field with the value it has, and a session started with --resume while a
\* saved snapshot exists begins with a ConstraintSet equal to it field by
\* field.
C18_SaveThenResumeRoundTrips ==
    [][\A s \in Sessions :
          /\ (saved'[s] # <<>>) => SameFields(saved'[s][1], constraints'[s])
          /\ (pc[s] = "new" /\ pc'[s] # "new" /\ "resuming" \in said'[s]
                /\ argv'[s] = None /\ progress_file.exists) =>
                 SameFields(progress_file.content, constraints'[s])
      ]_vars

\* C19: a call of _generate_blueprint_mock leaves every field of the
\* ConstraintSet, and the advisor's context, as they were, and the blueprint
\* it returns carries the ConstraintSet's service_name.
C19_GenerateLeavesConstraints ==
    [][(ret'.op = "_generate_blueprint_mock") =>
          /\ constraints' = constraints
          /\ context' = context
          /\ ret'.outcome.kind = "return"
          /\ ret'.outcome.value.service_name = constraints["s1"].service_name
      ]_vars

C19_Witness ==
    /\ GenerateReturned
    /\ Unit.latency_p99_ms = 0
    /\ Unit.service_name = "test-service"
    /\ Unit.team_size = 3

MinOf(numbers) == CHOOSE n \in numbers : \A m \in numbers : n <= m

MaxOf(numbers) == CHOOSE n \in numbers : \A m \in numbers : n >= m

PatternConfidences(b) == {b.patterns[i].confidence : i \in 1..Len(b.patterns)}

-----------------------------------------------------------------------------
(* How a session ends, what it hands on, and what sessions share *)

Ended(s) == pc[s] \in {"done", "exited", "crashed"}

\* _generate_blueprint_mock read the session's ConstraintSet.
Consumed(s) == blueprint[s].generated

\* _save_progress dumped the session's ConstraintSet.
Saved(s) == saved[s] # <<>>

C22_BlueprintHoldsConstraints ==
    GenerateReturned =>
        LET b == ret.outcome.value IN
        /\ \A i \in 1..Len(b.patterns) :
               {"confidence", "rationale"} \subseteq DOMAIN b.patterns[i]
        /\ \A f \in DOMAIN NewConstraints :
               /\ f \in DOMAIN b
               /\ b[f] = Unit[f]

EmptyConstraintSet ==
    [service_name      |-> "",
     service_type      |-> "",
     throughput_tps    |-> 0,
     latency_p99_ms    |-> 0,
     consistency_model |-> "",
     integrations      |-> <<>>,
     data_volume_gb    |-> 0,
     team_size         |-> 0,
     deployment_target |-> "kubernetes"]

\* The session that takes the step.
Acts(s) == pc'[s] # pc[s]

\* C23: a session that has not started holds an empty ConstraintSet (three
\* empty strings, three zeros, no integrations, kubernetes), for which
\* is_complete() is false, and an empty context, whatever the other session
\* has done; and a step of one session leaves every field of the other
\* session's ConstraintSet, its integrations list included, and the other
\* session's context as they were.
C23_SessionsShareNothing ==
    [][\A s \in Sessions :
          /\ (pc[s] = "new") =>
                 /\ constraints[s] = EmptyConstraintSet
                 /\ ~IsComplete(constraints[s])
                 /\ context[s] = {}
          /\ Acts(s) =>
                 \A t \in Sessions \ {s} :
                     /\ \A f \in DOMAIN EmptyConstraintSet :
                            constraints'[t][f] = constraints[t][f]
                     /\ context'[t] = context[t]
      ]_vars

C23_Witness ==
    /\ constraints["s1"].integrations = <<"kafka">>
    /\ constraints["s2"].integrations = <<"postgresql", "redis">>
    /\ constraints["s1"].service_type # constraints["s2"].service_type
    /\ pc["s1"] = "ask_team_size"
    /\ pc["s2"] = "ask_team_size"

\* What the store returns for session s: the code has one file for all
\* sessions, so every key reads that file.
Load(s) == progress_file

\* C24 as stated: a snapshot a session saved stays retrievable for that
\* session, whatever the other session saves afterwards.
C24_SnapshotsKeyedBySession ==
    \A s \in Sessions :
        Saved(s) =>
            /\ Load(s).exists
            /\ Load(s).content = saved[s][Len(saved[s])]

-----------------------------------------------------------------------------
(* Adaptive prompts, advisories and the five phases together (SpecSolo) *)

ExpectedDefault(service_type) ==
    IF service_type = "api" THEN 1000
    ELSE IF service_type = "event_processor" THEN 500
    ELSE 100

ExpectedUnit(service_type) ==
    IF service_type = "api" THEN "requests per second"
    ELSE IF service_type = "event_processor" THEN "messages per second"
    ELSE "operations per second"

ExpectedRange(service_type) ==
    IF service_type = "api" THEN "100-10,000 requests/second"
    ELSE IF service_type = "event_processor" THEN "50-5,000 messages/second"
    ELSE "10-1,000 operations/second"

\* C25: at the throughput prompt the offered default is 1000 for api, 500
\* for event_processor and 100 for every other service type; the default,
\* the unit and the advertised range are given by service_type alone, and
\* the fields of the later phases are still unset when they are chosen; a
\* session that accepts the default gets that number as throughput_tps.
C25_GuidanceFromServiceType ==
    \A s \in Sessions :
        /\ (pc[s] = "ask_throughput") =>
               LET t == constraints[s].service_type IN
               /\ offered[s].prompt = "ask_throughput"
               /\ IsDigit(offered[s].default_value)
               /\ ParseInt(offered[s].default_value) = ExpectedDefault(t)
               /\ offered[s].unit = ExpectedUnit(t)
               /\ offered[s].typical_range = ExpectedRange(t)
               /\ AcceptedDefault(s) = {ExpectedDefault(t)}
               /\ constraints[s].consistency_model = ""
               /\ constraints[s].integrations = <<>>
               /\ constraints[s].team_size = 0
        /\ (pc[s] # "ask_throughput") => offered[s] = NoOffer

C25_Witness ==
    \E s \in Sessions :
        /\ pc[s] = "ask_latency"
        /\ constraints[s].service_type = "event_processor"
        /\ heard[s].prompt = "ask_throughput"
        /\ heard[s].value = 500
        /\ constraints[s].throughput_tps = 500

\* The prompt the session waited at has returned in this step.
Answered(s, prompt) == pc[s] = prompt /\ heard'[s].prompt = prompt

\* C26: the step that ends a phase with advisories writes only the answer
\* of its prompt into the ConstraintSet, whether or not an advisory is
\* echoed; the high-performance advisory is echoed exactly when
\* throughput_tps > 5000 and latency_p99_ms < 50, the small-team advisory
\* exactly when team_size <= 2, the Kafka and PostgreSQL notes exactly when
\* the integration is selected.
C26_AdvisoriesWriteNothing ==
    [][\A s \in Sessions :
          /\ Answered(s, "ask_latency") =>
                 /\ constraints'[s] =
                        [constraints[s] EXCEPT !.latency_p99_ms = heard'[s].value]
                 /\ ("high_throughput_low_latency" \in said'[s]) <=>
                        (constraints'[s].throughput_tps > 5000
                            /\ constraints'[s].latency_p99_ms < 50)
          /\ Answered(s, "ask_integrations") =>
                 /\ \A f \in DOMAIN constraints[s] \ {"integrations"} :
                        constraints'[s][f] = constraints[s][f]
                 /\ ("kafka_detected" \in said'[s]) <=>
                        (\E i \in 1..Len(heard'[s].value) : heard'[s].value[i] = "kafka")
                 /\ ("postgresql_detected" \in said'[s]) <=>
                        (\E i \in 1..Len(heard'[s].value) : heard'[s].value[i] = "postgresql")
          /\ Answered(s, "ask_team_size") =>
                 /\ constraints'[s] =
                        [constraints[s] EXCEPT !.team_size = heard'[s].value]
                 /\ ("small_team_detected" \in said'[s]) <=>
                        (constraints'[s].team_size <= 2)
      ]_vars

C26_Witness ==
    \E s \in Sessions :
        /\ pc[s] = "ask_consistency"
        /\ said[s] = {"high_throughput_low_latency"}
        /\ constraints[s].throughput_tps = 6000
        /\ constraints[s].latency_p99_ms = 40
        /\ constraints[s].consistency_model = ""
        /\ constraints[s].team_size = 0

\* run() has left its five phase methods and printed the summary.
ReachedSummary(s) ==
    \/ pc[s] = "ask_proceed"
    \/ pc[s] = "done"
    \/ pc[s] = "exited" /\ interrupted_at[s] = "ask_proceed"

\* C27: once the five phases have returned, is_complete() holds (name,
\* type and consistency model non-empty, throughput and latency positive)
\* and team_size is positive, whichever answers and whichever branch of the
\* consistency dialogue led there; a generated blueprint was generated from
\* a complete ConstraintSet.
C27_SummaryImpliesComplete ==
    \A s \in Sessions :
        (ReachedSummary(s) \/ blueprint[s].generated) =>
            /\ IsComplete(constraints[s])
            /\ RequiredFieldsSet(constraints[s])
            /\ constraints[s].consistency_model \in {"strong", "eventual"}
            /\ constraints[s].team_size > 0

C27_Witness ==
    \E s \in Sessions :
        /\ blueprint[s].generated
        /\ argv[s] = "bad name!"
        /\ constraints[s].team_size = 2
        /\ constraints[s].latency_p99_ms = 40
        /\ IsComplete(constraints[s])

\* The items of a checkbox answer that are not the 'none' option, in the
\* order of the answer.
WithoutNone(selected) == SelectSeq(selected, LAMBDA item : item # "none")

\* C28: when the integrations prompt returns, integrations is the selection
\* without the 'none' option, the other items in their order: <<>> for no
\* selection and for 'none' alone, the real integrations when 'none' is
\* selected with them.
C28_IntegrationsWithoutNone ==
    [][\A s \in Sessions :
          Answered(s, "ask_integrations") =>
              LET selected == heard'[s].value
                  result   == constraints'[s].integrations
              IN /\ result = WithoutNone(selected)
                 /\ \A i \in 1..Len(result) : result[i] # "none"
                 /\ (selected \in {<<>>, <<"none">>}) => result = <<>>
                 /\ (selected = <<"kafka", "none">>) => result = <<"kafka">>
                 /\ (selected = <<"postgresql", "redis">>) => result = selected
      ]_vars

C28_Witness ==
    \E s \in Sessions :
        /\ pc[s] = "ask_team_size"
        /\ heard[s].prompt = "ask_integrations"
        /\ heard[s].value = <<"kafka", "none">>
        /\ constraints[s].integrations = <<"kafka">>

====
